---- MODULE Spec2Model ----
(* A model of find.py: the lexer (lex, lex_string), the recursive-descent   *)
(* parser (parse, parse_expr), the evaluator (the visit methods) and the    *)
(* printers (the __repr__ methods).                                         *)
(*                                                                          *)
(* A Python str is a sequence of one-character strings.  A Token is a       *)
(* record with the field type_, and the field value only when the Python    *)
(* value is not None.  An error message (Error = str) is a TLA+ string.     *)
EXTENDS Integers, Sequences, FiniteSets, TLC

(* pc        where main is: "lex", "lexed", "parse", "parsed", "done",      *)
(*           "exit" (error(err)) or "crash" (an exception left uncaught)     *)
(* code      main's code, the text given to lex                             *)
(* pos       the number of characters lex's iterator has yielded            *)
(* tokens    main's tokens, the tokens lex has yielded                      *)
(* lexret    the value lex's generator returned: None or an Error           *)
(* exc       the exception that left lex or parse, or None                  *)
(* consumed  the number of tokens parse's iterator has yielded              *)
(* ast, err  what parse returned                                            *)
(* input_    the buffer given to visit                                      *)
(* val, rep  ReplaceNode.visit's val and rep                                *)
(* res, rerr what ast.visit returned                                        *)
VARIABLES pc, code, pos, tokens, lexret, exc, consumed, ast, err,
          input_, val, rep, res, rerr

vars == <<pc, code, pos, tokens, lexret, exc, consumed, ast, err,
          input_, val, rep, res, rerr>>

lexvars == <<code, pos, tokens, lexret>>
parsevars == <<consumed, ast, err>>
visitvars == <<input_, val, rep, res, rerr>>

-----------------------------------------------------------------------------
(* Bounds and input alphabets *)

MaxCodeLen == 5
MaxToks == 5
MaxProgToks == 8
MaxInputLen == 3

(* The characters of a query file: a letter (unknown to the lexer outside a *)
(* string), whitespace, both parentheses, the quote, and the arrow's two.   *)
CodeChars == {"a", " ", "(", ")", "\"", "-", ">"}

(* The characters of the input buffer and of string literals' values. *)
InputChars == {"a", "b"}

RECURSIVE SeqsUpTo(_, _)
SeqsUpTo(S, n) ==
    IF n = 0 THEN {<<>>}
    ELSE LET shorter == SeqsUpTo(S, n - 1)
         IN  shorter \cup {Append(s, c) : s \in {t \in shorter : Len(t) = n - 1}, c \in S}

-----------------------------------------------------------------------------
(* Python values *)

None == "None"
NoNode == [type |-> "None"]

Token(tt) == [type_ |-> tt]
NoToken == [type_ |-> "None"]
StringToken(string) == [type_ |-> "STRING", value |-> string]
HasValue(tok) == "value" \in DOMAIN tok

TokenType == {"STRING", "ARROW", "LPAREN", "RPAREN"}

(* s[lo:hi] of a Python str, negative indices counted from the end *)
Clamp(s, i) ==
    IF i < 0 THEN (IF Len(s) + i < 0 THEN 0 ELSE Len(s) + i)
    ELSE IF i > Len(s) THEN Len(s) ELSE i

Slice(s, lo, hi) ==
    IF Clamp(s, lo) >= Clamp(s, hi) THEN <<>>
    ELSE SubSeq(s, Clamp(s, lo) + 1, Clamp(s, hi))

SliceTo(s, hi) == Slice(s, 0, hi)
SliceFrom(s, lo) == Slice(s, lo, Len(s))

isspace(char) == char = " "

-----------------------------------------------------------------------------
(* The lexer *)

(* lex_string: the iterator has yielded `at` characters; characters are     *)
(* accumulated until the closing quote, which is consumed too.              *)
RECURSIVE lex_string_loop(_, _, _)
lex_string_loop(src, at, string) ==
    IF at >= Len(src)
    THEN [tok |-> NoToken, err |-> "EOF while parsing string, did you forget a '\"'?", pos |-> at]
    ELSE IF src[at + 1] = "\""
         THEN [tok |-> StringToken(string), err |-> None, pos |-> at + 1]
         ELSE lex_string_loop(src, at + 1, Append(string, src[at + 1]))

lex_string(src, at) == lex_string_loop(src, at, <<>>)

single_char_toks(char) == IF char = "(" THEN "LPAREN" ELSE "RPAREN"
IsSingleChar(char) == char \in {"(", ")"}

(* One iteration of lex's for loop, the iterator having yielded `at` < len  *)
(* characters: the tokens yielded (none or one), whether the generator      *)
(* goes on, and otherwise how it ends: a returned Error, or an exception.   *)
Going(at, toks) == [pos |-> at, yield |-> toks, running |-> TRUE, ret |-> None, exc |-> None]
Returned(at, e) == [pos |-> at, yield |-> <<>>, running |-> FALSE, ret |-> e, exc |-> None]
Raised(at, x) == [pos |-> at, yield |-> <<>>, running |-> FALSE, ret |-> None, exc |-> x]

LexArrowStep(src, at) ==
    (* char = next(it): at the end of the text next raises StopIteration,   *)
    (* which a generator's frame turns into RuntimeError (PEP 479).         *)
    IF at + 1 >= Len(src) THEN Raised(at + 1, "RuntimeError")
    ELSE IF src[at + 2] # ">" THEN Returned(at + 2, "Expected '>' (after '-')")
    ELSE Going(at + 2, <<Token("ARROW")>>)

LexStringStep(src, at) ==
    LET r == lex_string(src, at + 1)
    IN  IF r.err # None THEN Returned(r.pos, r.err)
        ELSE Going(r.pos, <<r.tok>>)

LexStep(src, at) ==
    LET char == src[at + 1]
    IN  IF isspace(char) THEN Going(at + 1, <<>>)
        ELSE IF IsSingleChar(char) THEN Going(at + 1, <<Token(single_char_toks(char))>>)
        ELSE IF char = "\"" THEN LexStringStep(src, at)
        ELSE IF char = "-" THEN LexArrowStep(src, at)
        ELSE Returned(at + 1, "Unknown character '" \o char \o "'")

(* The generator driven to its end, as main's loop does: the tokens, then   *)
(* the returned value (None or an Error) or the exception.                  *)
RECURSIVE LexAll(_, _, _)
LexAll(src, at, toks) ==
    IF at >= Len(src) THEN [tokens |-> toks, ret |-> None, exc |-> None]
    ELSE LET s == LexStep(src, at)
         IN  IF s.running THEN LexAll(src, s.pos, toks \o s.yield)
             ELSE [tokens |-> toks, ret |-> s.ret, exc |-> s.exc]

lex(src) == LexAll(src, 0, <<>>)

-----------------------------------------------------------------------------
(* The parser *)

TT_NAMES(tt) ==
    CASE tt = "ARROW" -> "'->'"
      [] tt = "STRING" -> "string"
      [] tt = "LPAREN" -> "'('"
      [] tt = "RPAREN" -> "')'"

RECURSIVE human_chain_loop(_, _, _)
human_chain_loop(elts, i, result) ==
    IF i > Len(elts) THEN result
    ELSE human_chain_loop(elts, i + 1,
            result \o elts[i] \o
            (IF i - 1 < Len(elts) - 2 THEN ", "
             ELSE IF i - 1 = Len(elts) - 2 THEN " or "
             ELSE ""))

human_chain(elts) == human_chain_loop(elts, 1, "")

expect(expected, actual) ==
    "expected " \o human_chain([i \in 1..Len(expected) |-> TT_NAMES(expected[i])])
        \o ", but got " \o TT_NAMES(actual)

StringNode(tok) == [type |-> "String", tok |-> tok]
ConcatNode(nodes) == [type |-> "Concat", nodes |-> nodes]
ReplaceNode(query, replacement) ==
    [type |-> "Replace", query |-> query, replacement |-> replacement]

(* What a parsing function hands back: the (node, err) pair it returns, or  *)
(* the exception that leaves it, and how many tokens the shared iterator    *)
(* has yielded by then.                                                     *)
POk(node, at) == [node |-> node, err |-> None, exc |-> None, pos |-> at]
PErr(e, at) == [node |-> NoNode, err |-> e, exc |-> None, pos |-> at]
PRaise(x, at) == [node |-> NoNode, err |-> None, exc |-> x, pos |-> at]

(* parse_expr(it, tok), the iterator having yielded `at` tokens of toks;    *)
(* ParseNodes is its while loop, `nodes` the children collected so far.     *)
RECURSIVE parse_expr(_, _, _), ParseNodes(_, _, _)
parse_expr(toks, at, tok) ==
    IF tok.type_ # "LPAREN" /\ tok.type_ # "STRING"
    THEN PErr(expect(<<"LPAREN", "STRING">>, tok.type_), at)
    ELSE IF tok.type_ = "STRING" THEN POk(StringNode(tok), at)
    ELSE ParseNodes(toks, at, <<>>)

ParseNodes(toks, at, nodes) ==
    IF at >= Len(toks) THEN PRaise("StopIteration", at)
    ELSE IF toks[at + 1].type_ = "RPAREN" THEN POk(ConcatNode(nodes), at + 1)
    ELSE LET r == parse_expr(toks, at + 1, toks[at + 1])
         IN  IF r.exc # None \/ r.err # None THEN r
             ELSE ParseNodes(toks, r.pos, Append(nodes, r.node))

(* parse_expr(it, next(it)): next raises StopIteration at the end *)
ParseExprNext(toks, at) ==
    IF at >= Len(toks) THEN PRaise("StopIteration", at)
    ELSE parse_expr(toks, at + 1, toks[at + 1])

(* a variant of ParseReplacement that rejects tokens after the replacement *)
ParseReplacementStrict(toks, query, at) ==
    LET r == ParseExprNext(toks, at)
    IN  IF r.exc # None \/ r.err # None THEN r
        ELSE IF r.pos < Len(toks) THEN PErr("unexpected trailing input", r.pos)
        ELSE POk(ReplaceNode(query, r.node), r.pos)

ParseReplacement(toks, query, at) ==
    LET r == ParseExprNext(toks, at)
    IN  IF r.exc # None \/ r.err # None THEN r
        ELSE POk(ReplaceNode(query, r.node), r.pos)

(* a variant of ParseArrow without the try around next(it) *)
ParseArrowNoTry(toks, query, at) ==
    IF at >= Len(toks) THEN PRaise("StopIteration", at)
    ELSE IF toks[at + 1].type_ # "ARROW"
         THEN PErr(expect(<<"ARROW">>, toks[at + 1].type_), at + 1)
         ELSE ParseReplacement(toks, query, at + 1)

ParseArrow(toks, query, at) ==
    IF at >= Len(toks) THEN PErr("EOF while parsing replacement", at)
    ELSE IF toks[at + 1].type_ # "ARROW"
         THEN PErr(expect(<<"ARROW">>, toks[at + 1].type_), at + 1)
         ELSE ParseReplacement(toks, query, at + 1)

parse(toks) ==
    LET q == ParseExprNext(toks, 0)
    IN  IF q.exc # None \/ q.err # None THEN q
        ELSE ParseArrow(toks, q.node, q.pos)

-----------------------------------------------------------------------------
(* The evaluator *)

(* str.find: the lowest index at which sub occurs in s, or -1 *)
RECURSIVE FindFrom(_, _, _)
FindFrom(s, sub, i) ==
    IF i + Len(sub) > Len(s) THEN -1
    ELSE IF SubSeq(s, i + 1, i + Len(sub)) = sub THEN i
    ELSE FindFrom(s, sub, i + 1)

(* a variant of find that searches from the end, as str.rfind does *)
RECURSIVE RFindFrom(_, _, _)
RFindFrom(s, sub, i) ==
    IF i < 0 THEN -1
    ELSE IF SubSeq(s, i + 1, i + Len(sub)) = sub THEN i
    ELSE RFindFrom(s, sub, i - 1)

rfind(s, sub) == RFindFrom(s, sub, Len(s) - Len(sub))

find(s, sub) == FindFrom(s, sub, 0)

(* isinstance(v, str): a str is a sequence, None is not *)
IsStr(v) == v # None

RVal(v) == [val |-> v, err |-> None]
RErr(e) == [val |-> None, err |-> e]

StringVisit(node, inp) == RVal(node.tok.value)

(* a variant of ReplaceSplice whose test of the query's type is inverted *)
ReplaceSpliceInverted(q, r, inp) ==
    IF q.err # None THEN RErr(q.err)
    ELSE IF IsStr(q.val) THEN RErr("wrong data type for query; expected string")
    ELSE RVal(inp)

(* ReplaceNode.visit once the query and the replacement are evaluated: q    *)
(* and r are the (value, error) pairs of the two visits.                    *)
ReplaceSplice(q, r, inp) ==
    IF q.err # None THEN RErr(q.err)
    ELSE IF ~IsStr(q.val) THEN RErr("wrong data type for query; expected string")
    ELSE LET idx == find(inp, q.val)
             idx_end == idx + Len(q.val)
         IN  IF r.err # None THEN RErr(r.err)
             ELSE IF ~IsStr(r.val)
                  THEN RErr("wrong data type for replacement; expected string")
                  ELSE RVal(SliceTo(inp, idx) \o r.val \o SliceFrom(inp, idx_end))

(* a variant of ConcatAdd that puts the child's text first *)
ConcatPrepend(result, v) == v \o result

(* ConcatNode.visit's loop body: res += str(val) *)
ConcatAdd(result, v) == result \o v

RECURSIVE visit(_, _), ConcatVisit(_, _, _, _)
visit(node, inp) ==
    CASE node.type = "String" -> StringVisit(node, inp)
      [] node.type = "Concat" -> ConcatVisit(node.nodes, 1, <<>>, inp)
      [] node.type = "Replace" ->
            ReplaceSplice(visit(node.query, inp), visit(node.replacement, inp), inp)

ConcatVisit(nodes, i, result, inp) ==
    IF i > Len(nodes) THEN RVal(result)
    ELSE LET r == visit(nodes[i], inp)
         IN  IF r.err # None THEN RErr(r.err)
             ELSE ConcatVisit(nodes, i + 1, ConcatAdd(result, r.val), inp)

-----------------------------------------------------------------------------
(* The printers *)

TypeName(tt) ==
    CASE tt = "STRING" -> <<"S", "T", "R", "I", "N", "G">>
      [] tt = "ARROW" -> <<"A", "R", "R", "O", "W">>
      [] tt = "LPAREN" -> <<"L", "P", "A", "R", "E", "N">>
      [] tt = "RPAREN" -> <<"R", "P", "A", "R", "E", "N">>

Contains(s, c) == \E i \in 1..Len(s) : s[i] = c

(* repr of a str: in single quotes, or in double quotes when it holds a     *)
(* single quote and no double quote; the quote and the backslash escaped.   *)
RECURSIVE ReprChars(_, _)
ReprChars(s, quote) ==
    IF s = <<>> THEN <<>>
    ELSE (IF Head(s) = quote \/ Head(s) = "\\" THEN <<"\\", Head(s)>> ELSE <<Head(s)>>)
         \o ReprChars(Tail(s), quote)

StrRepr(s) ==
    LET quote == IF Contains(s, "'") /\ ~Contains(s, "\"") THEN "\"" ELSE "'"
    IN  <<quote>> \o ReprChars(s, quote) \o <<quote>>

TokenRepr(tok) ==
    IF HasValue(tok) THEN TypeName(tok.type_) \o <<":">> \o StrRepr(tok.value)
    ELSE TypeName(tok.type_)

RECURSIVE NodeRepr(_), JoinReprs(_, _)
NodeRepr(node) ==
    CASE node.type = "String" -> TokenRepr(node.tok)
      [] node.type = "Concat" -> <<"(">> \o JoinReprs(node.nodes, 1) \o <<")">>
      [] node.type = "Replace" ->
            <<"(">> \o NodeRepr(node.query) \o <<")", " ", "-", ">", " ", "(">>
                \o NodeRepr(node.replacement) \o <<")">>

(* " ".join(map(repr, nodes)), from the i-th node on *)
JoinReprs(nodes, i) ==
    IF i > Len(nodes) THEN <<>>
    ELSE NodeRepr(nodes[i]) \o (IF i < Len(nodes) THEN <<" ">> ELSE <<>>)
         \o JoinReprs(nodes, i + 1)

-----------------------------------------------------------------------------
(* The inputs *)

(* The query files: every text of at most MaxCodeLen characters *)
Codes == SeqsUpTo(CodeChars, MaxCodeLen)

(* The input buffers *)
Inputs == SeqsUpTo(InputChars, MaxInputLen)

(* The tokens lex can yield, the string literals' values being one letter *)
TokenSet ==
    {Token("LPAREN"), Token("RPAREN"), Token("ARROW")}
        \cup {StringToken(<<c>>) : c \in InputChars}

(* The token lists of the grammar's expr with exactly k tokens, and of      *)
(* expr* (a Concat's children) with exactly k tokens.                       *)
RECURSIVE ExprToks(_), ForestToks(_)
ExprToks(k) ==
    IF k <= 0 THEN {}
    ELSE IF k = 1 THEN {<<StringToken(<<c>>)>> : c \in InputChars}
    ELSE {<<Token("LPAREN")>> \o f \o <<Token("RPAREN")>> : f \in ForestToks(k - 2)}

ForestToks(k) ==
    IF k = 0 THEN {<<>>}
    ELSE UNION {{e \o f : e \in ExprToks(j), f \in ForestToks(k - j)} : j \in 1..k}

(* The grammar's programs (expr ARROW expr) of at most MaxProgToks tokens *)
Programs ==
    UNION {{q \o <<Token("ARROW")>> \o r : q \in ExprToks(p[1]), r \in ExprToks(p[2])} :
              p \in {x \in (1..MaxProgToks) \X (1..MaxProgToks) : x[1] + x[2] + 1 <= MaxProgToks}}

(* What parse is given: every token list of at most MaxToks tokens, and     *)
(* every program of at most MaxProgToks tokens.                             *)
TokenLists == SeqsUpTo(TokenSet, MaxToks) \cup Programs

-----------------------------------------------------------------------------
(* main from the token list on: parse, then the AST's visit on the input *)

Init ==
    /\ pc = "parse"
    /\ tokens \in TokenLists
    /\ code = <<>> /\ pos = 0 /\ lexret = None
    /\ exc = None
    /\ consumed = 0 /\ ast = NoNode /\ err = None
    /\ input_ = <<>> /\ val = None /\ rep = None /\ res = None /\ rerr = None

(* ast, err = parse(tokens): it returns, or an exception leaves it *)
ParseReturn ==
    /\ pc = "parse"
    /\ LET r == parse(tokens)
       IN  /\ r.exc = None
           /\ pc' = "parsed"
           /\ consumed' = r.pos
           /\ ast' = r.node
           /\ err' = r.err
    /\ UNCHANGED <<lexvars, exc, visitvars>>

ParseRaise ==
    /\ pc = "parse"
    /\ LET r == parse(tokens)
       IN  /\ r.exc # None
           /\ pc' = "crash"
           /\ consumed' = r.pos
           /\ exc' = r.exc
    /\ UNCHANGED <<lexvars, ast, err, visitvars>>

(* if err is not None: error(err) *)
ParseError ==
    /\ pc = "parsed"
    /\ err # None
    /\ pc' = "exit"
    /\ UNCHANGED <<lexvars, exc, parsevars, visitvars>>

(* res, err = ast.visit(input_), ast a ReplaceNode; val and rep are the     *)
(* values of its query and of its replacement.                              *)
Visit ==
    /\ pc = "parsed"
    /\ err = None
    /\ \E inp \in Inputs :
          LET q == visit(ast.query, inp)
              r == visit(ast.replacement, inp)
              out == ReplaceSplice(q, r, inp)
          IN  /\ input_' = inp
              /\ val' = q.val
              /\ rep' = r.val
              /\ res' = out.val
              /\ rerr' = out.err
    /\ pc' = "done"
    /\ UNCHANGED <<lexvars, exc, parsevars>>

Next == ParseReturn \/ ParseRaise \/ ParseError \/ Visit

Spec == Init /\ [][Next]_vars

-----------------------------------------------------------------------------
(* lex, one iteration of its loop at a time, as main's loop draws tokens *)

InitLex ==
    /\ pc = "lex"
    /\ code \in Codes
    /\ pos = 0 /\ tokens = <<>> /\ lexret = None
    /\ exc = None
    /\ consumed = 0 /\ ast = NoNode /\ err = None
    /\ input_ = <<>> /\ val = None /\ rep = None /\ res = None /\ rerr = None

LexApply(s) ==
    /\ pos' = s.pos
    /\ tokens' = tokens \o s.yield
    /\ lexret' = s.ret
    /\ exc' = s.exc
    /\ pc' = IF s.running THEN "lex" ELSE IF s.exc # None THEN "crash" ELSE "lexed"
    /\ UNCHANGED <<code, parsevars, visitvars>>

AtChar(S) == pc = "lex" /\ pos < Len(code) /\ code[pos + 1] \in S

LexSpace == AtChar({" "}) /\ LexApply(LexStep(code, pos))

LexSingleChar == AtChar({"(", ")"}) /\ LexApply(LexStep(code, pos))

LexString == AtChar({"\""}) /\ LexApply(LexStep(code, pos))

LexArrow == AtChar({"-"}) /\ LexApply(LexStep(code, pos))

LexUnknown == AtChar(CodeChars \ {" ", "(", ")", "\"", "-"}) /\ LexApply(LexStep(code, pos))

(* the text is exhausted: return None *)
LexEnd ==
    /\ pc = "lex"
    /\ pos >= Len(code)
    /\ pc' = "lexed"
    /\ lexret' = None
    /\ UNCHANGED <<code, pos, tokens, exc, parsevars, visitvars>>

NextLex == LexSpace \/ LexSingleChar \/ LexString \/ LexArrow \/ LexUnknown \/ LexEnd

SpecLex == InitLex /\ [][NextLex]_vars

-----------------------------------------------------------------------------
(* Notions the properties are stated with.  Apart from ExpectingArrow they  *)
(* use none of the operators above that model the code.                     *)

(* sub occurs in s at the 0-based index i *)
OccursAt(s, sub, i) ==
    /\ i >= 0
    /\ i + Len(sub) <= Len(s)
    /\ \A k \in 1..Len(sub) : s[i + k] = sub[k]

Occurs(s, sub) == \E i \in 0..Len(s) : OccursAt(s, sub, i)

(* '(' minus ')' among the first k tokens of ts *)
Depth(ts, k) ==
    Cardinality({i \in 1..k : ts[i].type_ = "LPAREN"})
        - Cardinality({i \in 1..k : ts[i].type_ = "RPAREN"})

(* ts is one expr of the grammar: a STRING, or a balanced, arrow-free       *)
(* parenthesis whose opening '(' is closed by the last token only.          *)
IsExpr(ts) ==
    /\ Len(ts) >= 1
    /\ \A i \in 1..Len(ts) : ts[i].type_ # "ARROW"
    /\ \/ Len(ts) = 1 /\ ts[1].type_ = "STRING"
       \/ /\ Len(ts) >= 2
          /\ Depth(ts, Len(ts)) = 0
          /\ \A k \in 1..(Len(ts) - 1) : Depth(ts, k) > 0

(* tokens[1..k] is the query expr *)
QueryEndsAt(k) == k \in 1..Len(tokens) /\ IsExpr(SubSeq(tokens, 1, k))

(* tokens[1..m] is a complete program whose query is tokens[1..k] *)
ProgramEndsAt(k, m) ==
    /\ QueryEndsAt(k)
    /\ k + 2 <= m /\ m <= Len(tokens)
    /\ tokens[k + 1].type_ = "ARROW"
    /\ IsExpr(SubSeq(tokens, k + 2, m))

(* the values of the STRING tokens of ts, concatenated in the order of ts *)
RECURSIVE StringsOf(_)
StringsOf(ts) ==
    IF ts = <<>> THEN <<>>
    ELSE (IF Head(ts).type_ = "STRING" THEN Head(ts).value ELSE <<>>) \o StringsOf(Tail(ts))

(* ts without its parentheses *)
RECURSIVE DropParens(_)
DropParens(ts) ==
    IF ts = <<>> THEN <<>>
    ELSE (IF Head(ts).type_ \in {"LPAREN", "RPAREN"} THEN <<>> ELSE <<Head(ts)>>)
         \o DropParens(Tail(ts))

(* The lexical rules as the specification words them: the tokens of the     *)
(* text before the first offending position, and the error there (None      *)
(* when the whole text is lexed).                                           *)
FirstQuote(s) == CHOOSE i \in 1..Len(s) : s[i] = "\"" /\ \A j \in 1..(i - 1) : s[j] # "\""

RefThen(tok, rest) == [tokens |-> <<tok>> \o rest.tokens, error |-> rest.error]

RECURSIVE RefLex(_)
RefLex(s) ==
    IF s = <<>> THEN [tokens |-> <<>>, error |-> None]
    ELSE CASE Head(s) = " " -> RefLex(Tail(s))
           [] Head(s) = "(" -> RefThen([type_ |-> "LPAREN"], RefLex(Tail(s)))
           [] Head(s) = ")" -> RefThen([type_ |-> "RPAREN"], RefLex(Tail(s)))
           [] Head(s) = "\"" ->
                IF \A i \in 2..Len(s) : s[i] # "\""
                THEN [tokens |-> <<>>,
                      error |-> "EOF while parsing string, did you forget a '\"'?"]
                ELSE LET j == FirstQuote(Tail(s))
                     IN  RefThen([type_ |-> "STRING", value |-> SubSeq(s, 2, j)],
                                 RefLex(SubSeq(s, j + 2, Len(s))))
           [] Head(s) = "-" ->
                IF Len(s) >= 2 /\ s[2] = ">"
                THEN RefThen([type_ |-> "ARROW"], RefLex(SubSeq(s, 3, Len(s))))
                ELSE [tokens |-> <<>>, error |-> "Expected '>' (after '-')"]
           [] OTHER -> [tokens |-> <<>>, error |-> "Unknown character '" \o Head(s) \o "'"]

(* the tree under node holds String and Concat nodes only *)
RECURSIVE OnlyStringConcat(_)
OnlyStringConcat(node) ==
    \/ node.type = "String"
    \/ /\ node.type = "Concat"
       /\ \A i \in 1..Len(node.nodes) : OnlyStringConcat(node.nodes[i])

(* the messages expect builds for the expected set [ARROW] *)
ExpectingArrow == {expect(<<"ARROW">>, tt) : tt \in TokenType}

Parsed == pc \in {"parsed", "exit", "done"}

-----------------------------------------------------------------------------
(* The properties *)

(* C1: for every token list parse returns an AST or an explicit error; it   *)
(* never ends in an exception (StopIteration leaving next(it)) when the     *)
(* tokens run out where one is required.                                    *)
C1_ParseNeverRaises ==
    pc # "parse" => (pc # "crash" /\ exc = None /\ (ast # NoNode \/ err # None))

(* C2: a '-' that is the last character of the text ends lex with the       *)
(* lexical error it returns for a '-' followed by another character than    *)
(* '>': neither an exception nor a successful end.                          *)
C2_DashAtEndIsLexError ==
    [][(pc = "lex" /\ pos + 1 = Len(code) /\ code[pos + 1] = "-")
          => (pc' = "lexed" /\ lexret' = "Expected '>' (after '-')")]_vars

(* C3: when the query text val occurs in the input, Replace.visit returns,  *)
(* with no error, input[0:i] + rep + input[i+len(val):], i the leftmost     *)
(* position at which val occurs: the text before i and after i+len(val) is  *)
(* unchanged and no later occurrence is replaced.                           *)
C3_ReplaceLeftmost ==
    (pc = "done" /\ Occurs(input_, val)) =>
        /\ rerr = None
        /\ \E i \in 0..Len(input_) :
              /\ OccursAt(input_, val, i)
              /\ \A j \in 0..(i - 1) : ~OccursAt(input_, val, j)
              /\ res = SubSeq(input_, 1, i) \o rep
                          \o SubSeq(input_, i + Len(val) + 1, Len(input_))

(* the query occurs twice in the input, first after the input's start *)
C3_Witness ==
    /\ pc = "done"
    /\ \E i, j \in 1..Len(input_) :
          i < j /\ OccursAt(input_, val, i) /\ OccursAt(input_, val, j)
            /\ ~OccursAt(input_, val, 0) /\ rep # val

(* C4: when the query text does not occur in the input, Replace.visit       *)
(* returns the input unchanged or an explicit error, never another string.  *)
C4_NotFoundPolicy ==
    (pc = "done" /\ ~Occurs(input_, val)) => (rerr # None \/ res = input_)

C6_ConcatLeftToRight ==
    \A k \in 1..Len(tokens) :
        (pc = "done" /\ QueryEndsAt(k)) =>
            /\ rerr = None
            /\ ast.query.type = "Concat" => val = StringsOf(SubSeq(tokens, 1, k))
            /\ ast.replacement.type = "Concat" =>
                  rep = StringsOf(SubSeq(tokens, k + 2, consumed))
            /\ (ast.query.type = "Concat" /\ ast.query.nodes = <<>>) => val = <<>>

(* a Concat holding a Concat, its literals' values differing *)
C6_Witness ==
    /\ pc = "done"
    /\ ast.query.type = "Concat"
    /\ \E i \in 1..Len(ast.query.nodes) : ast.query.nodes[i].type = "Concat"
    /\ val = <<"a", "b">>

(* C7: for every node parse builds (the Replace, its query, its             *)
(* replacement), lexing the node's repr succeeds and gives the tokens the   *)
(* node was parsed from, up to the parentheses the printer adds.            *)
C7_ReprRoundTrip ==
    \A k \in 1..Len(tokens) :
        (Parsed /\ err = None /\ QueryEndsAt(k)) =>
            LET root == lex(NodeRepr(ast))
                q == lex(NodeRepr(ast.query))
                r == lex(NodeRepr(ast.replacement))
            IN  /\ root.exc = None /\ root.ret = None
                /\ DropParens(root.tokens) = DropParens(SubSeq(tokens, 1, consumed))
                /\ q.exc = None /\ q.ret = None
                /\ DropParens(q.tokens) = DropParens(SubSeq(tokens, 1, k))
                /\ r.exc = None /\ r.ret = None
                /\ DropParens(r.tokens) = DropParens(SubSeq(tokens, k + 2, consumed))

(* C8: when the tokens start with a complete program, parse returns that    *)
(* program's Replace AST and no error whatever tokens follow, which it      *)
(* neither checks nor consumes.                                             *)
C8_TrailingIgnored ==
    \A k, m \in 1..Len(tokens) :
        (pc # "parse" /\ ProgramEndsAt(k, m)) =>
            /\ pc # "crash"
            /\ err = None
            /\ consumed = m
            /\ ast = parse(SubSeq(tokens, 1, m)).node
            /\ ast.type = "Replace"

(* a complete program followed by more tokens *)
C8_Witness ==
    /\ pc = "parsed"
    /\ \E k, m \in 1..Len(tokens) : ProgramEndsAt(k, m) /\ m < Len(tokens)

(* C9: lex yields the tokens in the order of the text and ends with at most *)
(* one error: the whole token list and no error for a text without lexical  *)
(* error, otherwise the tokens of the text before the first offending       *)
(* position and then that error; what stands between two quotes is the      *)
(* String token's value and gives no token of its own.                      *)
C9_TokensThenFirstError ==
    /\ pc = "lex" =>
          /\ RefLex(SubSeq(code, 1, pos)).error = None
          /\ tokens = RefLex(SubSeq(code, 1, pos)).tokens
    /\ pc # "lex" =>
          /\ pc = "lexed"
          /\ tokens = RefLex(code).tokens
          /\ lexret = RefLex(code).error

(* C9 but for the exception of C2: lex ends in RuntimeError only at a '-'   *)
(* that ends the text, the tokens before it yielded.                        *)
C9_ExceptDashAtEnd ==
    /\ pc = "lex" =>
          /\ RefLex(SubSeq(code, 1, pos)).error = None
          /\ tokens = RefLex(SubSeq(code, 1, pos)).tokens
    /\ pc # "lex" => tokens = RefLex(code).tokens
    /\ pc = "lexed" => lexret = RefLex(code).error
    /\ pc = "crash" =>
          /\ exc = "RuntimeError"
          /\ code[Len(code)] = "-"
          /\ RefLex(code).error = "Expected '>' (after '-')"

(* C10: when parse returns without error the AST's root is a Replace and    *)
(* the tree's only one, its query and replacement made of String and Concat *)
(* nodes, and its visit returns a string and no error on every input.       *)
C10_SingleReplaceNoTypeError ==
    /\ (Parsed /\ err = None) =>
          /\ ast.type = "Replace"
          /\ OnlyStringConcat(ast.query)
          /\ OnlyStringConcat(ast.replacement)
          /\ \A inp \in Inputs : visit(ast, inp).err = None
    /\ pc = "done" =>
          /\ rerr = None
          /\ res \in Seq(InputChars)

(* a program with a Concat query has been evaluated *)
C10_Witness ==
    pc = "done" /\ ast.query.type = "Concat" /\ Len(ast.query.nodes) >= 2

====
